---- MODULE Spec2Model ----
(***************************************************************************)
(* Model of src/functions/pyodbc_functions.py:                             *)
(*   - create_table_from_schema  (the Table Provisioner), as a step        *)
(*     machine over the pyodbc calls it makes, each of which may raise;    *)
(*   - generate_schema_from_df   (forward schema inference), as operators; *)
(*   - return_table_schema       (reverse schema extraction), as operators *)
(*     and as a step machine over the rows cursor.columns() yields.        *)
(***************************************************************************)
EXTENDS Integers, Sequences, FiniteSets, TLC

VARIABLES
    \* ---- the database and create_table_from_schema ----
    tables,           \* names of the base tables that exist (committed) in the database
    pc,               \* position inside create_table_from_schema
    table_name,       \* argument table_name of the running invocation
    autocommit,       \* autocommit mode of the connection handed in (server_connection's flag)
    table_present,    \* local table_present, as "table_present == []" reads it
    cursor_open,      \* the cursor handed in has not been closed
    connection_open,  \* the connection handed in has not been closed
    log,              \* the pyodbc calls the invocation has issued, in order
    exc,              \* the pending exception (its description), or NoExc
    result,           \* the value the invocation returned
    history,          \* the finished invocations, in order
    \* ---- generate_schema_from_df and the round trip ----
    ipc,              \* position of the inference run
    dataframe,        \* argument dataframe: a sequence of columns
    limit_string_search, \* argument limit_string_search
    schema,           \* value returned by generate_schema_from_df
    reflected,        \* value return_table_schema gives for the reflected schema
    \* ---- return_table_schema ----
    xpc,              \* position inside return_table_schema
    rows,             \* the rows cursor.columns(table=...) yields
    fetched,          \* number of rows the for loop has consumed
    schema_lines,     \* local schema_lines
    xschema,          \* local schema
    xexc,             \* the pending exception (its description), or NoExc
    xcursor_open,     \* the cursor handed to return_table_schema is open
    xconnection_open, \* the connection handed to return_table_schema is open
    xresult           \* value returned by return_table_schema

pvars == <<tables, pc, table_name, autocommit, table_present, cursor_open,
           connection_open, log, exc, result, history>>
ivars == <<ipc, dataframe, limit_string_search, schema, reflected>>
xvars == <<xpc, rows, fetched, schema_lines, xschema, xexc, xcursor_open,
           xconnection_open, xresult>>
vars == <<pvars, ivars, xvars>>

(***************************************************************************)
(* Python values                                                           *)
(***************************************************************************)
None == [type |-> "NoneType"]
Str(s) == [type |-> "str", value |-> s]
Raised(e) == [type |-> "raise", value |-> e]

\* Descriptions a pyodbc exception may carry (str(e)).
Errors == {"08S01 communication link failure", "42000 syntax error or access violation"}
NoExc == "no exception"

\* connection.getinfo(pyodbc.SQL_SERVER_NAME)
ServerName == "SQLSRV01"

TableNames == {"people", "orders"}

\* Number of invocations of create_table_from_schema in one behaviour.
MaxCalls == 2

(***************************************************************************)
(* create_table_from_schema                                                *)
(***************************************************************************)
\* f-string of lines 227-228
already_table_message(name) ==
    "There is already a table with the name: " \o name \o " in " \o ServerName

\* f-string of line 234
error_message(e) == "There was an error: " \o e

\* A finished invocation, as the caller and the database saw it.
Finished(res, failed) ==
    [table |-> table_name, result |-> res, log |-> log', failed |-> failed,
     present_before |-> table_present, exists_after |-> table_name \in tables',
     cursor_closed |-> ~cursor_open', connection_closed |-> ~connection_open']

ProvisionerIdle ==
    /\ pc = "idle" /\ table_name = "" /\ autocommit = FALSE
    /\ table_present = FALSE /\ cursor_open = FALSE /\ connection_open = FALSE
    /\ log = <<>> /\ exc = NoExc /\ result = None /\ history = <<>>

\* The caller opens a fresh connection/cursor pair and calls the function.
Invoke ==
    /\ pc \in {"idle", "returned"}
    /\ Len(history) < MaxCalls
    /\ \E name \in TableNames, ac \in BOOLEAN :
          /\ table_name' = name
          /\ autocommit' = ac
    /\ pc' = "check"
    /\ cursor_open' = TRUE
    /\ connection_open' = TRUE
    /\ log' = <<>>
    /\ exc' = NoExc
    /\ result' = None
    /\ table_present' = FALSE
    /\ UNCHANGED <<tables, history>>

\* A pyodbc call raises: control passes to the except clause.
Raise(e) ==
    /\ exc' = e
    /\ pc' = "except"

\* lines 213-217: the INFORMATION_SCHEMA.TABLES query and its fetchall()
CheckTablePresentAlwaysAbsent ==
    /\ pc = "check"
    /\ log' = Append(log, "SELECT")
    /\ \/ \E e \in Errors : Raise(e) /\ UNCHANGED table_present
       \/ /\ table_present' = FALSE
          /\ pc' = "create"
          /\ UNCHANGED exc
    /\ UNCHANGED <<tables, table_name, autocommit, cursor_open, connection_open,
                   result, history>>

CheckTablePresent ==
    /\ pc = "check"
    /\ log' = Append(log, "SELECT")
    /\ \/ \E e \in Errors : Raise(e) /\ UNCHANGED table_present
       \/ /\ table_present' = (table_name \in tables)
          /\ pc' = IF table_name \in tables THEN "getinfo" ELSE "create"
          /\ UNCHANGED exc
    /\ UNCHANGED <<tables, table_name, autocommit, cursor_open, connection_open,
                   result, history>>

\* lines 218-222: cursor.execute(CREATE TABLE ...)
CreateTableNoCommit ==
    /\ pc = "create"
    /\ log' = Append(log, "CREATE TABLE")
    /\ \/ \E e \in Errors : Raise(e) /\ UNCHANGED tables
       \/ /\ tables' = tables \cup {table_name}
          /\ pc' = "close_cursor"
          /\ UNCHANGED exc
    /\ UNCHANGED <<table_name, autocommit, table_present, cursor_open,
                   connection_open, result, history>>

CreateTable ==
    /\ pc = "create"
    /\ log' = Append(log, "CREATE TABLE")
    /\ \/ \E e \in Errors : Raise(e) /\ UNCHANGED tables
       \/ /\ tables' = IF autocommit THEN tables \cup {table_name} ELSE tables
          /\ pc' = "commit"
          /\ UNCHANGED exc
    /\ UNCHANGED <<table_name, autocommit, table_present, cursor_open,
                   connection_open, result, history>>

\* line 223: connection.commit()
Commit ==
    /\ pc = "commit"
    /\ log' = Append(log, "commit")
    /\ \/ \E e \in Errors : Raise(e) /\ UNCHANGED tables
       \/ /\ tables' = tables \cup {table_name}
          /\ pc' = "close_cursor"
          /\ UNCHANGED exc
    /\ UNCHANGED <<table_name, autocommit, table_present, cursor_open,
                   connection_open, result, history>>

\* line 228: connection.getinfo(pyodbc.SQL_SERVER_NAME), building the message
GetInfo ==
    /\ pc = "getinfo"
    /\ log' = Append(log, "getinfo")
    /\ \/ \E e \in Errors : Raise(e)
       \/ /\ pc' = "close_cursor"
          /\ UNCHANGED exc
    /\ UNCHANGED <<tables, table_name, autocommit, table_present, cursor_open,
                   connection_open, result, history>>

\* lines 224 and 229: cursor.close()
CloseCursor ==
    /\ pc = "close_cursor"
    /\ log' = Append(log, "cursor.close")
    /\ \/ \E e \in Errors : Raise(e) /\ UNCHANGED cursor_open
       \/ /\ cursor_open' = FALSE
          /\ pc' = "close_connection"
          /\ UNCHANGED exc
    /\ UNCHANGED <<tables, table_name, autocommit, table_present,
                   connection_open, result, history>>

\* lines 225 and 230-231: connection.close(), then the function returns:
\* None after a creation, the message when the table was present.
CloseConnection ==
    /\ pc = "close_connection"
    /\ log' = Append(log, "connection.close")
    /\ UNCHANGED <<tables, table_name, autocommit, table_present, cursor_open>>
    /\ \/ /\ \E e \in Errors : Raise(e)
          /\ UNCHANGED <<connection_open, result, history>>
       \/ /\ connection_open' = FALSE
          /\ result' = IF table_present
                       THEN Str(already_table_message(table_name))
                       ELSE None
          /\ history' = Append(history, Finished(result', FALSE))
          /\ pc' = "returned"
          /\ UNCHANGED exc

\* lines 233-234: except Exception as e: return f'There was an error: {e}'
HandleExceptionSwallow ==
    /\ pc = "except"
    /\ UNCHANGED <<tables, table_name, autocommit, table_present, cursor_open,
                   connection_open, log, exc>>
    /\ result' = None
    /\ history' = Append(history, Finished(result', TRUE))
    /\ pc' = "returned"

HandleException ==
    /\ pc = "except"
    /\ UNCHANGED <<tables, table_name, autocommit, table_present, cursor_open,
                   connection_open, log, exc>>
    /\ result' = Str(error_message(exc))
    /\ history' = Append(history, Finished(result', TRUE))
    /\ pc' = "returned"

(***************************************************************************)
(* Python and pandas values that generate_schema_from_df looks at          *)
(***************************************************************************)
Min(a, b) == IF a < b THEN a ELSE b
MaxOf(S) == CHOOSE m \in S : \A x \in S : x <= m

\* Cells of a column. A str is kept by its length, a Decimal by the triple
\* as_tuple() returns (sign, digits, exponent).
NoneCell == [kind |-> "None"]
NaNCell == [kind |-> "nan"]
StrCell(n) == [kind |-> "str", len |-> n]
BytesCell == [kind |-> "bytes", len |-> 2]
DatetimeCell == [kind |-> "datetime"]
IntCell == [kind |-> "int", len |-> 1]
ValueCell == [kind |-> "value"]
DecimalCell(s, c, e) == [kind |-> "Decimal", sign |-> s, coefficient |-> c, exponent |-> e]

\* pandas.isna
isna(cell) == cell.kind \in {"None", "nan"}

\* Series.dropna()
dropna(values) == SelectSeq(values, LAMBDA cell : ~isna(cell))

\* The decimal digits of a natural number, most significant first.
RECURSIVE IntChars(_)
IntChars(n) == IF n < 10 THEN <<ToString(n)>> ELSE IntChars(n \div 10) \o <<ToString(n % 10)>>

\* n copies of the character c
Repeat(c, n) == [i \in 1..n |-> c]

\* "%+d" % n
SignedChars(n) == IF n < 0 THEN <<"-">> \o IntChars(-n) ELSE <<"+">> \o IntChars(n)

\* str(decimal.Decimal), as a sequence of characters (scientific notation
\* when the exponent is positive or more than six zeros would follow the point).
DecimalStr(d) ==
    LET int == IntChars(d.coefficient)
        leftdigits == d.exponent + Len(int)
        dotplace == IF d.exponent <= 0 /\ leftdigits > -6 THEN leftdigits ELSE 1
        intpart == IF dotplace <= 0 THEN <<"0">>
                   ELSE IF dotplace >= Len(int) THEN int \o Repeat("0", dotplace - Len(int))
                   ELSE SubSeq(int, 1, dotplace)
        fracpart == IF dotplace <= 0 THEN <<".">> \o Repeat("0", -dotplace) \o int
                    ELSE IF dotplace >= Len(int) THEN <<>>
                    ELSE <<".">> \o SubSeq(int, dotplace + 1, Len(int))
        exp == IF leftdigits = dotplace THEN <<>>
               ELSE <<"E">> \o SignedChars(leftdigits - dotplace)
        sign == IF d.sign = 1 THEN <<"-">> ELSE <<>>
    IN sign \o intpart \o fracpart \o exp

\* len(str(value)) for a cell of an object column
PyStrLen(cell) ==
    CASE cell.kind = "None" -> 4
      [] cell.kind = "nan" -> 3
      [] cell.kind = "str" -> cell.len
      [] cell.kind = "bytes" -> cell.len + 3
      [] cell.kind = "datetime" -> 19
      [] cell.kind = "int" -> cell.len
      [] cell.kind = "Decimal" -> Len(DecimalStr(cell))

\* s.split('.'): the pieces of s between its dots
RECURSIVE split_dot(_)
split_dot(s) ==
    IF \A i \in 1..Len(s) : s[i] # "."
    THEN <<s>>
    ELSE LET k == CHOOSE i \in 1..Len(s) : s[i] = "." /\ \A j \in 1..(i - 1) : s[j] # "."
         IN <<SubSeq(s, 1, k - 1)>> \o split_dot(SubSeq(s, k + 1, Len(s)))

\* s.lstrip('-')
RECURSIVE lstrip_minus(_)
lstrip_minus(s) == IF s # <<>> /\ Head(s) = "-" THEN lstrip_minus(Tail(s)) ELSE s

\* s.replace('.', '')
remove_dots(s) == SelectSeq(s, LAMBDA c : c # ".")

\* set(s)
char_set(s) == {s[i] : i \in 1..Len(s)}

(***************************************************************************)
(* generate_schema_from_df                                                 *)
(***************************************************************************)
\* lines 131-139
type_mapping ==
    [int64 |-> "BIGINT", int32 |-> "INT", int16 |-> "SMALLINT", float64 |-> "FLOAT",
     float32 |-> "REAL", bool |-> "BIT", object |-> "TEXT", datetime64ns |-> "TIMESTAMP"]

\* str(data_type) as a key of type_mapping
dtype_key(dtype) == IF dtype = "datetime64[ns]" THEN "datetime64ns" ELSE dtype

\* type_mapping.get(str(data_type), 'TEXT')
type_mapping_get(dtype) ==
    IF dtype_key(dtype) \in DOMAIN type_mapping THEN type_mapping[dtype_key(dtype)] ELSE "TEXT"

\* line 157: the length below which a text column is declared VARCHAR(255)
VarcharLimit == 255

\* lines 153-156: the values whose length is measured
scan_window(values, limit) ==
    IF limit > 0 THEN SubSeq(values, 1, Min(limit, Len(values))) ELSE values

\* lines 153-160: the str branch
string_sql_type_inclusive(values, limit) ==
    LET data == scan_window(values, limit)
    IN IF MaxOf({PyStrLen(data[i]) : i \in 1..Len(data)}) <= VarcharLimit
       THEN "VARCHAR(255)"
       ELSE "TEXT"

string_sql_type(values, limit) ==
    LET data == scan_window(values, limit)
    IN IF MaxOf({PyStrLen(data[i]) : i \in 1..Len(data)}) < VarcharLimit
       THEN "VARCHAR(255)"
       ELSE "TEXT"

\* lines 163-173: the Decimal branch; split('.')[1] raises IndexError when
\* str(data_sample) has no decimal point
decimal_sql_type(data_sample) ==
    LET exponent == data_sample.exponent
        scale == IF exponent < 0 THEN -exponent ELSE 0
        text == DecimalStr(data_sample)
        parts == split_dot(text)
    IN IF char_set(lstrip_minus(parts[1])) = char_set(<<"0">>)
       THEN IF Len(parts) < 2
            THEN Raised("IndexError: list index out of range")
            ELSE Str("DECIMAL(" \o ToString(Len(parts[2])) \o "," \o ToString(scale) \o ")")
       ELSE Str("DECIMAL(" \o ToString(Len(remove_dots(lstrip_minus(text))))
                \o "," \o ToString(scale) \o ")")

\* lines 147-178: dispatch on the first non-null value
sample_sql_type(values, limit) ==
    LET data_sample == Head(dropna(values))
    IN CASE data_sample.kind = "bytes" -> Str("VARBINARY(MAX)")
         [] data_sample.kind = "str" -> Str(string_sql_type(values, limit))
         [] data_sample.kind = "Decimal" -> decimal_sql_type(data_sample)
         [] data_sample.kind = "datetime" -> Str("TIMESTAMP")
         [] OTHER -> Str("TEXT")

\* lines 143-182: the SQL type of one column
column_sql_type_text_when_empty(col, limit) ==
    IF dropna(col.values) = <<>>
    THEN Str("TEXT")
    ELSE IF col.dtype = "object"
    THEN sample_sql_type(col.values, limit)
    ELSE Str(type_mapping_get(col.dtype))

column_sql_type(col, limit) ==
    IF col.dtype = "object"
    THEN IF dropna(col.values) # <<>>
         THEN sample_sql_type(col.values, limit)
         ELSE Str("TEXT")
    ELSE Str(type_mapping_get(col.dtype))

\* ",\n".join(lines)
RECURSIVE join_lines(_)
join_lines(lines) ==
    IF lines = <<>> THEN ""
    ELSE IF Len(lines) = 1 THEN lines[1]
    ELSE lines[1] \o ",\n" \o join_lines(Tail(lines))

\* line 184: f" {col} {sql_type}"
column_definition(name, sql_type) == " " \o name \o " " \o sql_type

\* lines 140-188: the whole function; an exception raised for a column
\* leaves the function at that column
generate_schema_from_df(df, limit) ==
    LET types == [i \in 1..Len(df) |-> column_sql_type(df[i], limit)]
        failing == {i \in 1..Len(df) : types[i].type = "raise"}
    IN IF failing # {}
       THEN types[CHOOSE i \in failing : \A j \in failing : i <= j]
       ELSE Str(join_lines([i \in 1..Len(df) |->
                                column_definition(df[i].name, types[i].value)]))

(***************************************************************************)
(* return_table_schema                                                     *)
(***************************************************************************)
\* str.upper() on the type names a catalog reports
UpperOf ==
    [varchar |-> "VARCHAR", Varchar |-> "VARCHAR", decimal |-> "DECIMAL",
     Decimal |-> "DECIMAL", varbinary |-> "VARBINARY", bigint |-> "BIGINT",
     int |-> "INT", smallint |-> "SMALLINT", float |-> "FLOAT", real |-> "REAL",
     bit |-> "BIT", text |-> "TEXT", timestamp |-> "TIMESTAMP", nvarchar |-> "NVARCHAR"]

upper(s) == IF s \in DOMAIN UpperOf THEN UpperOf[s] ELSE s

\* lines 263-277: the line appended for one row of cursor.columns()
schema_line_zero_size(col) ==
    IF upper(col.type_name) = "VARCHAR"
    THEN " " \o col.column_name \o " " \o upper(col.type_name)
             \o "(" \o ToString(col.column_size) \o ")"
    ELSE IF upper(col.type_name) = "DECIMAL"
    THEN " " \o col.column_name \o " " \o upper(col.type_name)
             \o "(" \o ToString(col.column_size) \o "," \o ToString(col.decimal_digits) \o ")"
    ELSE IF upper(col.type_name) = "VARBINARY"
    THEN " " \o col.column_name \o " " \o upper(col.type_name)
             \o "(" \o ToString(col.column_size) \o ")"
    ELSE " " \o col.column_name \o " " \o upper(col.type_name)

schema_line(col) ==
    IF upper(col.type_name) = "VARCHAR"
    THEN " " \o col.column_name \o " " \o upper(col.type_name)
             \o "(" \o ToString(col.column_size) \o ")"
    ELSE IF upper(col.type_name) = "DECIMAL"
    THEN " " \o col.column_name \o " " \o upper(col.type_name)
             \o "(" \o ToString(col.column_size) \o "," \o ToString(col.decimal_digits) \o ")"
    ELSE IF upper(col.type_name) = "VARBINARY"
    THEN IF col.column_size = 0
         THEN " " \o col.column_name \o " " \o upper(col.type_name) \o "(" \o "MAX" \o ")"
         ELSE " " \o col.column_name \o " " \o upper(col.type_name)
                  \o "(" \o ToString(col.column_size) \o ")"
    ELSE " " \o col.column_name \o " " \o upper(col.type_name)

\* lines 257-282 when no pyodbc call raises
return_table_schema(metadata) ==
    Str(join_lines([i \in 1..Len(metadata) |-> schema_line(metadata[i])]))

ExtractorIdle ==
    /\ xpc = "idle" /\ rows = <<>> /\ fetched = 0 /\ schema_lines = <<>>
    /\ xschema = "" /\ xexc = NoExc /\ xcursor_open = FALSE
    /\ xconnection_open = FALSE /\ xresult = None

\* A pyodbc call of return_table_schema raises.
XRaise(e) ==
    /\ xexc' = e
    /\ xpc' = "except"

\* line 260: cursor.columns(table=table_name)
CallColumns ==
    /\ xpc = "columns"
    /\ \/ \E e \in Errors : XRaise(e)
       \/ xpc' = "loop" /\ UNCHANGED xexc
    /\ UNCHANGED <<rows, fetched, schema_lines, xschema, xcursor_open,
                   xconnection_open, xresult>>

\* lines 260-277: one turn of the for loop: the next row is fetched and
\* its line appended
LoopRowPrepend ==
    /\ xpc = "loop"
    /\ fetched < Len(rows)
    /\ \/ /\ \E e \in Errors : XRaise(e)
          /\ UNCHANGED <<fetched, schema_lines>>
       \/ /\ fetched' = fetched + 1
          /\ schema_lines' = <<schema_line(rows[fetched + 1])>> \o schema_lines
          /\ UNCHANGED <<xpc, xexc>>
    /\ UNCHANGED <<rows, xschema, xcursor_open, xconnection_open, xresult>>

LoopRow ==
    /\ xpc = "loop"
    /\ fetched < Len(rows)
    /\ \/ /\ \E e \in Errors : XRaise(e)
          /\ UNCHANGED <<fetched, schema_lines>>
       \/ /\ fetched' = fetched + 1
          /\ schema_lines' = Append(schema_lines, schema_line(rows[fetched + 1]))
          /\ UNCHANGED <<xpc, xexc>>
    /\ UNCHANGED <<rows, xschema, xcursor_open, xconnection_open, xresult>>

\* lines 260 and 279: the iterator is exhausted (or the fetch that would
\* find this out raises), then schema += ",\n".join(schema_lines)
EndLoop ==
    /\ xpc = "loop"
    /\ fetched = Len(rows)
    /\ \/ /\ \E e \in Errors : XRaise(e)
          /\ UNCHANGED xschema
       \/ /\ xschema' = "" \o join_lines(schema_lines)
          /\ xpc' = "close_cursor"
          /\ UNCHANGED xexc
    /\ UNCHANGED <<rows, fetched, schema_lines, xcursor_open, xconnection_open, xresult>>

\* line 280: cursor.close()
XCloseCursor ==
    /\ xpc = "close_cursor"
    /\ \/ /\ \E e \in Errors : XRaise(e)
          /\ UNCHANGED xcursor_open
       \/ /\ xcursor_open' = FALSE
          /\ xpc' = "close_connection"
          /\ UNCHANGED xexc
    /\ UNCHANGED <<rows, fetched, schema_lines, xschema, xconnection_open, xresult>>

\* lines 281-282: connection.close(); return schema
XCloseConnection ==
    /\ xpc = "close_connection"
    /\ \/ /\ \E e \in Errors : XRaise(e)
          /\ UNCHANGED <<xconnection_open, xresult>>
       \/ /\ xconnection_open' = FALSE
          /\ xresult' = Str(xschema)
          /\ xpc' = "returned"
          /\ UNCHANGED xexc
    /\ UNCHANGED <<rows, fetched, schema_lines, xschema, xcursor_open>>

\* lines 284-285: except Exception as e: return f'There was an error: {e}'
XHandleExceptionPartial ==
    /\ xpc = "except"
    /\ xresult' = Str(join_lines(schema_lines))
    /\ xpc' = "returned"
    /\ UNCHANGED <<rows, fetched, schema_lines, xschema, xexc, xcursor_open,
                   xconnection_open>>

XHandleException ==
    /\ xpc = "except"
    /\ xresult' = Str(error_message(xexc))
    /\ xpc' = "returned"
    /\ UNCHANGED <<rows, fetched, schema_lines, xschema, xexc, xcursor_open,
                   xconnection_open>>

(***************************************************************************)
(* The catalog of the database the DDL is sent to: each declared column    *)
(* comes back as one row of cursor.columns()                               *)
(***************************************************************************)
\* Precisions and scales a DECIMAL declaration may carry.
DeclaredDigits == 0..9

\* Declared SQL type -> the (type_name, column_size, decimal_digits) the
\* catalog reports for it.
CatalogTypes ==
    {<<"VARBINARY(MAX)", "varbinary", 0, 0>>,
     <<"VARCHAR(255)", "varchar", 255, 0>>,
     <<"TEXT", "text", 2147483647, 0>>,
     <<"BIGINT", "bigint", 19, 0>>,
     <<"INT", "int", 10, 0>>,
     <<"SMALLINT", "smallint", 5, 0>>,
     <<"FLOAT", "float", 53, 0>>,
     <<"REAL", "real", 24, 0>>,
     <<"BIT", "bit", 1, 0>>,
     <<"TIMESTAMP", "timestamp", 8, 0>>}
    \cup {<<"DECIMAL(" \o ToString(p) \o "," \o ToString(s) \o ")", "decimal", p, s>> :
              p \in DeclaredDigits, s \in DeclaredDigits}

ReflectColumn(name, sql_type) ==
    LET entry == CHOOSE t \in CatalogTypes : t[1] = sql_type
    IN [column_name |-> name, type_name |-> entry[2],
        column_size |-> entry[3], decimal_digits |-> entry[4]]

\* The rows cursor.columns() yields for the table created from the schema
\* generate_schema_from_df returned for df.
ReflectSchema(df, limit) ==
    [i \in 1..Len(df) |-> ReflectColumn(df[i].name, column_sql_type(df[i], limit).value)]

(***************************************************************************)
(* Inputs                                                                  *)
(***************************************************************************)
\* Rows of a one-column dataframe.
MaxRows == 3
\* Columns of a dataframe whose columns hold one value each.
MaxCols == 2
\* Largest limit_string_search.
MaxLimit == 2
\* Rows cursor.columns() yields.
MaxMetaRows == 2

StrLens == {1, 254, 255, 256}
BaseCells ==
    {NoneCell, NaNCell, BytesCell, DatetimeCell, IntCell} \cup {StrCell(n) : n \in StrLens}

\* 0.25 is (0, 25, -2), 123.45 is (0, 12345, -2), 100 is (0, 100, 0), 0 is (0, 0, 0)
Coefficients == {0, 25, 100, 12345}
Exponents == {-7, -2, 0, 2}
Decimals == {DecimalCell(s, c, e) : s \in {0, 1}, c \in Coefficients, e \in Exponents}

\* dtypes whose columns can hold missing values (NaN, NaT), and the others
NullableDTypes == {"float64", "float32", "datetime64[ns]", "category"}
NonNullableDTypes == {"int64", "int32", "int16", "bool"}

\* Columns of one value, without a name
SingleValueColumns ==
    {[dtype |-> "object", values |-> <<c>>] :
         c \in (BaseCells \ {NoneCell, NaNCell})
               \cup {DecimalCell(0, c, e) : c \in Coefficients, e \in {-2, 0}}}
        \cup {[dtype |-> t, values |-> <<ValueCell>>] :
                  t \in NullableDTypes \cup NonNullableDTypes}

ColumnName(i) == "c" \o ToString(i)

\* The dataframes: every one-column dataframe (an object column of any
\* cells or with a Decimal as its first non-null value, a column of another
\* dtype), and the dataframes of up to MaxCols columns of one value each.
IsFrame(df) ==
    \/ \E k \in 0..MaxRows :
          \E v \in [1..k -> BaseCells] :
              df = <<[name |-> ColumnName(1), dtype |-> "object", values |-> v]>>
    \/ \E d \in Decimals, front \in {<<>>, <<NoneCell>>} :
          df = <<[name |-> ColumnName(1), dtype |-> "object", values |-> front \o <<d>>]>>
    \/ \E t \in NullableDTypes, k \in 0..MaxRows :
          \E v \in [1..k -> {NaNCell, ValueCell}] :
              df = <<[name |-> ColumnName(1), dtype |-> t, values |-> v]>>
    \/ \E t \in NonNullableDTypes, k \in 0..MaxRows :
          df = <<[name |-> ColumnName(1), dtype |-> t, values |-> [i \in 1..k |-> ValueCell]]>>
    \/ \E n \in 0..MaxCols :
          \E f \in [1..n -> SingleValueColumns] :
              df = [i \in 1..n |-> [name |-> ColumnName(i), dtype |-> f[i].dtype,
                                    values |-> f[i].values]]

ColumnNames == {"id", "val"}
MetaRows ==
    {[column_name |-> n, type_name |-> t, column_size |-> z, decimal_digits |-> 0] :
         n \in ColumnNames, t \in {"varchar", "VARBINARY", "int"}, z \in {0, 255}}
        \cup {[column_name |-> n, type_name |-> "Decimal", column_size |-> z,
               decimal_digits |-> g] : n \in ColumnNames, z \in {5, 18}, g \in {0, 2}}

(***************************************************************************)
(* Applying generate_schema_from_df, and the round trip                    *)
(***************************************************************************)
InferIdle ==
    /\ ipc = "idle" /\ dataframe = <<>> /\ limit_string_search = 0
    /\ schema = None /\ reflected = None

Generate ==
    /\ ipc = "start"
    /\ schema' = generate_schema_from_df(dataframe, limit_string_search)
    /\ ipc' = "generated"
    /\ UNCHANGED <<dataframe, limit_string_search, reflected>>

\* CREATE TABLE with the schema, then return_table_schema on the new table
Reflect ==
    /\ ipc = "generated"
    /\ schema.type = "str"
    /\ reflected' = return_table_schema(ReflectSchema(dataframe, limit_string_search))
    /\ ipc' = "reflected"
    /\ UNCHANGED <<dataframe, limit_string_search, schema>>

(***************************************************************************)
(* Specifications                                                          *)
(***************************************************************************)
\* create_table_from_schema, called up to MaxCalls times
Init ==
    /\ tables \in SUBSET TableNames
    /\ pc = "idle" /\ table_name = "" /\ autocommit = FALSE
    /\ table_present = FALSE /\ cursor_open = FALSE /\ connection_open = FALSE
    /\ log = <<>> /\ exc = NoExc /\ result = None /\ history = <<>>
    /\ InferIdle
    /\ ExtractorIdle

Next ==
    \/ Invoke /\ UNCHANGED <<ivars, xvars>>
    \/ CheckTablePresent /\ UNCHANGED <<ivars, xvars>>
    \/ CreateTable /\ UNCHANGED <<ivars, xvars>>
    \/ Commit /\ UNCHANGED <<ivars, xvars>>
    \/ GetInfo /\ UNCHANGED <<ivars, xvars>>
    \/ CloseCursor /\ UNCHANGED <<ivars, xvars>>
    \/ CloseConnection /\ UNCHANGED <<ivars, xvars>>
    \/ HandleException /\ UNCHANGED <<ivars, xvars>>

Spec == Init /\ [][Next]_vars

\* generate_schema_from_df on one dataframe, then the round trip
InitInfer ==
    /\ ProvisionerIdle /\ tables = {}
    /\ ExtractorIdle
    /\ ipc = "start"
    /\ IsFrame(dataframe)
    /\ limit_string_search \in 0..MaxLimit
    /\ schema = None
    /\ reflected = None

NextInfer ==
    \/ Generate /\ UNCHANGED <<pvars, xvars>>
    \/ Reflect /\ UNCHANGED <<pvars, xvars>>

SpecInfer == InitInfer /\ [][NextInfer]_vars

\* return_table_schema on one table
InitExtract ==
    /\ ProvisionerIdle /\ tables = {}
    /\ InferIdle
    /\ xpc = "columns"
    /\ \E k \in 0..MaxMetaRows : rows \in [1..k -> MetaRows]
    /\ fetched = 0 /\ schema_lines = <<>> /\ xschema = "" /\ xexc = NoExc
    /\ xcursor_open = TRUE /\ xconnection_open = TRUE /\ xresult = None

NextExtract ==
    \/ CallColumns /\ UNCHANGED <<pvars, ivars>>
    \/ LoopRow /\ UNCHANGED <<pvars, ivars>>
    \/ EndLoop /\ UNCHANGED <<pvars, ivars>>
    \/ XCloseCursor /\ UNCHANGED <<pvars, ivars>>
    \/ XCloseConnection /\ UNCHANGED <<pvars, ivars>>
    \/ XHandleException /\ UNCHANGED <<pvars, ivars>>

SpecExtract == InitExtract /\ [][NextExtract]_vars

(***************************************************************************)
(* What the caller of create_table_from_schema can tell from its result    *)
(***************************************************************************)
FailedResults == {Str(error_message(e)) : e \in Errors}
AlreadyResults == {Str(already_table_message(n)) : n \in TableNames}

Outcome(res) ==
    IF res = None THEN "DONE"
    ELSE IF res \in AlreadyResults THEN "ALREADY_EXISTS"
    ELSE IF res \in FailedResults THEN "FAILED"
    ELSE "UNKNOWN"

Count(seq, x) == Cardinality({i \in 1..Len(seq) : seq[i] = x})

\* The existence check of the finished invocation answered, and what it said.
ReportedAbsent == Len(log) >= 2 /\ ~table_present
ReportedPresent == Len(log) >= 2 /\ table_present

CreatedLog == <<"SELECT", "CREATE TABLE", "commit", "cursor.close", "connection.close">>
PresentLog == <<"SELECT", "getinfo", "cursor.close", "connection.close">>

(***************************************************************************)
(* Properties of create_table_from_schema (specification Spec)             *)
(***************************************************************************)
\* C1: when an invocation of create_table_from_schema has returned, whatever
\* its outcome, the cursor and the connection it was given are both closed.
C1_HandlesClosedOnReturn ==
    pc = "returned" => ~cursor_open /\ ~connection_open

\* C2 as stated: the existence check comes first; when it reports the table
\* absent, exactly one CREATE TABLE is issued, a commit follows it, then the
\* handles are closed and the outcome is DONE; when it reports the table
\* present, no CREATE TABLE and no commit are issued and the outcome is
\* ALREADY_EXISTS.
C2_OrderAsStated ==
    pc = "returned" =>
        /\ log # <<>> /\ log[1] = "SELECT"
        /\ ReportedAbsent => log = CreatedLog /\ Outcome(result) = "DONE"
        /\ ReportedPresent =>
              /\ Count(log, "CREATE TABLE") = 0
              /\ Count(log, "commit") = 0
              /\ Outcome(result) = "ALREADY_EXISTS"

\* C2 amended: the existence check comes first and is issued once; when it
\* reports the table absent, exactly one CREATE TABLE is issued, right after
\* it, and if no pyodbc call of the invocation raises a commit follows, then
\* the two closes, and the outcome is DONE; when it reports the table
\* present, no CREATE TABLE and no commit are issued and if no call raises
\* the outcome is ALREADY_EXISTS; an invocation in which a call raises ends
\* FAILED, and a commit is never issued without the CREATE TABLE before it.
C2_Order ==
    pc = "returned" =>
        /\ log # <<>> /\ log[1] = "SELECT" /\ Count(log, "SELECT") = 1
        /\ ReportedAbsent =>
              /\ Count(log, "CREATE TABLE") = 1 /\ log[2] = "CREATE TABLE"
              /\ exc = NoExc => log = CreatedLog /\ Outcome(result) = "DONE"
        /\ ReportedPresent =>
              /\ Count(log, "CREATE TABLE") = 0
              /\ Count(log, "commit") = 0
              /\ exc = NoExc => log = PresentLog /\ Outcome(result) = "ALREADY_EXISTS"
        /\ exc # NoExc => Outcome(result) = "FAILED"
        /\ \A i \in 1..Len(log) : log[i] = "commit" => i = 3 /\ log[2] = "CREATE TABLE"

C2_Witness ==
    /\ pc = "returned" /\ exc = NoExc /\ ReportedAbsent
    /\ log = CreatedLog /\ result = None
    /\ ~cursor_open /\ ~connection_open

\* C3: in a run of invocations none of which met a pyodbc failure, for each
\* table name: once the table exists every later invocation yields
\* ALREADY_EXISTS and issues no CREATE TABLE, an invocation that found the
\* table absent yields DONE, and at most one CREATE TABLE is issued in all.
C3_Idempotent ==
    (\A i \in 1..Len(history) : ~history[i].failed) =>
        \A n \in TableNames :
            LET calls == {i \in 1..Len(history) : history[i].table = n}
            IN /\ \A i \in calls, j \in calls :
                      i < j /\ history[i].exists_after =>
                          /\ Outcome(history[j].result) = "ALREADY_EXISTS"
                          /\ Count(history[j].log, "CREATE TABLE") = 0
               /\ \A i \in calls :
                      /\ history[i].exists_after
                      /\ ~history[i].present_before => Outcome(history[i].result) = "DONE"
                      /\ Count(history[i].log, "CREATE TABLE") <= 1
               /\ Cardinality({i \in calls : Count(history[i].log, "CREATE TABLE") > 0}) <= 1

C3_Witness ==
    /\ Len(history) = 2
    /\ history[1].table = history[2].table
    /\ ~history[1].failed /\ ~history[2].failed
    /\ Outcome(history[1].result) = "DONE"
    /\ Count(history[1].log, "CREATE TABLE") = 1
    /\ Outcome(history[2].result) = "ALREADY_EXISTS"
    /\ Count(history[2].log, "CREATE TABLE") = 0

\* C4: an invocation in which a pyodbc call raised (the existence check, the
\* CREATE TABLE, the commit or any other) returns the FAILED result, which
\* holds the description of that exception and of no other, and is neither
\* the DONE result (None) nor an ALREADY_EXISTS message; an invocation in
\* which nothing raised never returns a FAILED result.
C4_FailureReported ==
    pc = "returned" =>
        /\ exc # NoExc =>
              /\ result = Str(error_message(exc))
              /\ \A e \in Errors : e # exc => result # Str(error_message(e))
              /\ result # None
              /\ result \notin AlreadyResults
              /\ Outcome(result) = "FAILED"
        /\ exc = NoExc => result \notin FailedResults

C4_Witness ==
    /\ pc = "returned" /\ exc \in Errors
    /\ log = <<"SELECT", "CREATE TABLE">>
    /\ result = Str(error_message(exc))

(***************************************************************************)
(* Properties of generate_schema_from_df (specification SpecInfer)         *)
(***************************************************************************)
\* generate_schema_from_df has returned for a dataframe of one column
OneColumnDone == ipc = "generated" /\ Len(dataframe) = 1

\* The schema of a one-column dataframe whose column is declared sql_type
OneColumnSchema(sql_type) == Str(" " \o dataframe[1].name \o " " \o sql_type)

ZeroNonNull(col) == \A i \in 1..Len(col.values) : col.values[i].kind \in {"None", "nan"}

\* C5 as stated: a column with zero non-null values is declared TEXT,
\* whatever its dtype.
C5_EmptyColumnAsStated ==
    OneColumnDone /\ ZeroNonNull(dataframe[1]) => schema = OneColumnSchema("TEXT")

\* C5 amended: a column with zero non-null values is declared TEXT when its
\* dtype is object or a dtype the type mapping does not list; for a listed
\* dtype it is declared the mapped type: BIGINT for int64, INT for int32,
\* SMALLINT for int16, FLOAT for float64, REAL for float32, BIT for bool,
\* TIMESTAMP for datetime64[ns].
C5_EmptyColumn ==
    OneColumnDone /\ ZeroNonNull(dataframe[1]) =>
        schema = OneColumnSchema(
            CASE dataframe[1].dtype = "int64" -> "BIGINT"
              [] dataframe[1].dtype = "int32" -> "INT"
              [] dataframe[1].dtype = "int16" -> "SMALLINT"
              [] dataframe[1].dtype = "float64" -> "FLOAT"
              [] dataframe[1].dtype = "float32" -> "REAL"
              [] dataframe[1].dtype = "bool" -> "BIT"
              [] dataframe[1].dtype = "datetime64[ns]" -> "TIMESTAMP"
              [] OTHER -> "TEXT")

C5_Witness ==
    /\ OneColumnDone
    /\ dataframe[1].dtype = "float64"
    /\ dataframe[1].values = <<NaNCell, NaNCell>>
    /\ schema = Str(" c1 FLOAT")

\* The object column of a one-column dataframe has a str as first non-null value
TextColumn ==
    /\ dataframe[1].dtype = "object"
    /\ \E i \in 1..Len(dataframe[1].values) :
          /\ dataframe[1].values[i].kind = "str"
          /\ \A j \in 1..(i - 1) : dataframe[1].values[j].kind \in {"None", "nan"}

\* The positions of the values whose length is measured
Window ==
    IF limit_string_search > 0
    THEN {i \in 1..Len(dataframe[1].values) : i <= limit_string_search}
    ELSE 1..Len(dataframe[1].values)

\* C6: an object column whose first non-null value is a str is declared
\* VARCHAR(255) exactly when every value of the scan window (the first
\* limit_string_search values, all of them when it is 0) measures less than
\* 255 characters, and TEXT otherwise: a longest measured value of 254
\* characters gives VARCHAR(255), one of 255 gives TEXT.
C6_VarcharThreshold ==
    OneColumnDone /\ TextColumn =>
        /\ schema \in {OneColumnSchema("VARCHAR(255)"), OneColumnSchema("TEXT")}
        /\ schema = OneColumnSchema("VARCHAR(255)")
              <=> \A i \in Window : PyStrLen(dataframe[1].values[i]) <= 254

C6_Witness ==
    /\ OneColumnDone
    /\ dataframe[1].dtype = "object"
    /\ dataframe[1].values = <<StrCell(254), StrCell(255)>>
    /\ limit_string_search = 1
    /\ schema = Str(" c1 VARCHAR(255)")

\* The Decimal that is the first non-null value of the object column
DecimalSample == Head(dropna(dataframe[1].values))
DecimalColumn ==
    /\ dataframe[1].dtype = "object"
    /\ dropna(dataframe[1].values) # <<>>
    /\ DecimalSample.kind = "Decimal"

\* scale and precision as the rule states them, on the value written out in
\* positional notation
RuleScale(d) == IF d.exponent < 0 THEN -d.exponent ELSE 0
RuleIntegerPartIsZero(d) ==
    d.coefficient = 0 \/ Len(IntChars(d.coefficient)) + d.exponent <= 0
RulePrecision(d) ==
    IF RuleIntegerPartIsZero(d) THEN RuleScale(d)
    ELSE IF d.exponent >= 0 THEN Len(IntChars(d.coefficient)) + d.exponent
    ELSE Len(IntChars(d.coefficient))

\* C7: for every Decimal sample the function returns (raises nothing) and
\* declares DECIMAL(precision,scale): scale the magnitude of a negative
\* exponent and 0 otherwise, precision the number of digits after the point
\* when the integer part is zero and the number of all digits otherwise.
C7_DecimalRule ==
    OneColumnDone /\ DecimalColumn =>
        schema = OneColumnSchema("DECIMAL(" \o ToString(RulePrecision(DecimalSample))
                                 \o "," \o ToString(RuleScale(DecimalSample)) \o ")")

\* C8: when the columns the schema declares come back as catalog rows (name,
\* type name, size, decimal digits; VARBINARY(MAX) with size 0),
\* return_table_schema gives the schema generate_schema_from_df returned:
\* the same columns in the same order with the same type and parameters.
C8_RoundTrip ==
    ipc = "reflected" => reflected = schema

C8_Witness ==
    /\ ipc = "reflected"
    /\ Len(dataframe) = 2
    /\ schema = Str(" c1 VARBINARY(MAX),\n c2 DECIMAL(5,2)")
    /\ reflected = schema

(***************************************************************************)
(* Properties of return_table_schema (specification SpecExtract)           *)
(***************************************************************************)
\* The parameters the rule gives a row's type
RuleParameters(row) ==
    CASE upper(row.type_name) = "VARCHAR" -> "(" \o ToString(row.column_size) \o ")"
      [] upper(row.type_name) = "DECIMAL" ->
             "(" \o ToString(row.column_size) \o "," \o ToString(row.decimal_digits) \o ")"
      [] upper(row.type_name) = "VARBINARY" /\ row.column_size = 0 -> "(MAX)"
      [] upper(row.type_name) = "VARBINARY" /\ row.column_size # 0 ->
             "(" \o ToString(row.column_size) \o ")"
      [] OTHER -> ""

RuleLine(row) == " " \o row.column_name \o " " \o upper(row.type_name) \o RuleParameters(row)

\* C9: when nothing raises, the schema returned has one line per metadata
\* row, in the rows' order, each the uppercased type name with (size) for
\* VARCHAR, (size,digits) for DECIMAL, (size) for VARBINARY but (MAX) when the
\* size is 0, and no parameters for any other type.
C9_Rendering ==
    xpc = "returned" /\ xexc = NoExc =>
        /\ xresult = Str(join_lines([i \in 1..Len(rows) |-> RuleLine(rows[i])]))
        /\ \A i \in 1..Len(rows) :
              upper(rows[i].type_name) = "VARBINARY" /\ rows[i].column_size = 0 =>
                  schema_lines[i] = " " \o rows[i].column_name \o " VARBINARY(MAX)"

C9_Witness ==
    /\ xpc = "returned" /\ xexc = NoExc
    /\ Len(rows) = 2
    /\ rows[1] = [column_name |-> "id", type_name |-> "VARBINARY", column_size |-> 0,
                  decimal_digits |-> 0]
    /\ rows[2].type_name = "Decimal" /\ rows[2].column_name = "val"
    /\ rows[2].column_size = 5 /\ rows[2].decimal_digits = 2
    /\ xresult = Str(" id VARBINARY(MAX),\n val DECIMAL(5,2)")

\* C10: when a pyodbc call raises while return_table_schema runs, also after
\* some rows were read, the value returned is the error message and is not
\* the schema of any prefix of the rows.
C10_AllOrNothing ==
    xpc = "returned" /\ xexc # NoExc =>
        /\ xresult = Str(error_message(xexc))
        /\ \A k \in 0..Len(rows) :
              xresult # Str(join_lines([i \in 1..k |-> schema_line(rows[i])]))

C10_Witness ==
    /\ xpc = "returned" /\ xexc \in Errors
    /\ Len(rows) = 2 /\ fetched = 1 /\ Len(schema_lines) = 1
    /\ xresult = Str(error_message(xexc))

====
